---- MODULE Spec2Model ----
(***************************************************************************)
(* A model of scripts/make_errorcodes.py: the generator of the errorcodes  *)
(* module.  Strings are sequences of one-character strings, Python dicts   *)
(* are insertion-ordered sequences of <<key, value>> pairs.                 *)
(***************************************************************************)
EXTENDS Integers, Sequences, FiniteSets, TLC

\* ------------------------------------------------------------------ bounds
NumVersions == 2
MaxLines == 3
MaxDesc == 3

\* ------------------------------------------------------------ characters
\* Code points of the characters the model uses (str comparison in sorted()).
Ord(ch) ==
    CASE ch = " " -> 32 [] ch = "#" -> 35 [] ch = "'" -> 39 [] ch = "(" -> 40
      [] ch = ")" -> 41 [] ch = "-" -> 45 [] ch = "/" -> 47
      [] ch = "0" -> 48 [] ch = "1" -> 49 [] ch = "2" -> 50 [] ch = "3" -> 51
      [] ch = ":" -> 58 [] ch = "=" -> 61 [] ch = "!" -> 33
      [] ch = "A" -> 65 [] ch = "B" -> 66 [] ch = "C" -> 67 [] ch = "D" -> 68
      [] ch = "E" -> 69 [] ch = "I" -> 73 [] ch = "L" -> 76 [] ch = "M" -> 77
      [] ch = "N" -> 78 [] ch = "O" -> 79 [] ch = "R" -> 82 [] ch = "S" -> 83
      [] ch = "T" -> 84 [] ch = "U" -> 85 [] ch = "V" -> 86 [] ch = "W" -> 87
      [] ch = "X" -> 88 [] ch = "Y" -> 89 [] ch = "Z" -> 90 [] ch = "_" -> 95
      [] ch = "a" -> 97 [] ch = "b" -> 98 [] ch = "c" -> 99 [] ch = "d" -> 100
      [] ch = "e" -> 101 [] ch = "g" -> 103 [] ch = "i" -> 105 [] ch = "l" -> 108
      [] ch = "n" -> 110 [] ch = "o" -> 111 [] ch = "p" -> 112 [] ch = "r" -> 114
      [] ch = "s" -> 115 [] ch = "t" -> 116 [] ch = "u" -> 117 [] ch = "x" -> 120
      [] ch = "z" -> 122

\* str.upper() on one character.
UpperChar(ch) ==
    CASE ch = "a" -> "A" [] ch = "b" -> "B" [] ch = "c" -> "C" [] ch = "d" -> "D"
      [] ch = "e" -> "E" [] ch = "g" -> "G" [] ch = "i" -> "I" [] ch = "l" -> "L"
      [] ch = "n" -> "N" [] ch = "o" -> "O" [] ch = "p" -> "P" [] ch = "r" -> "R"
      [] ch = "s" -> "S" [] ch = "t" -> "T" [] ch = "u" -> "U" [] ch = "x" -> "X"
      [] ch = "z" -> "Z" [] OTHER -> ch

IsSpace(ch) == ch = " "

\* ---------------------------------------------------------------- strings
\* str.upper()
Upper(s) == [i \in 1..Len(s) |-> UpperChar(s[i])]

\* str.replace(old, new) for one-character old and new
Replace(s, old, new) == [i \in 1..Len(s) |-> IF s[i] = old THEN new ELSE s[i]]

\* str.startswith(prefix)
StartsWith(s, prefix) ==
    /\ Len(s) >= Len(prefix)
    /\ SubSeq(s, 1, Len(prefix)) = prefix

\* str.find(sep) + 1: the first index where sep occurs in s, 0 when it does not
Find(s, sep) ==
    LET hits == {i \in 1..(Len(s) - Len(sep) + 1) : SubSeq(s, i, i + Len(sep) - 1) = sep}
    IN IF hits = {} THEN 0 ELSE CHOOSE i \in hits : \A j \in hits : i <= j

\* str.split(sep): the pieces between the non-overlapping occurrences of sep
RECURSIVE Split(_, _)
Split(s, sep) ==
    LET i == Find(s, sep)
    IN IF i = 0 THEN <<s>>
       ELSE <<SubSeq(s, 1, i - 1)>> \o Split(SubSeq(s, i + Len(sep), Len(s)), sep)

\* str.strip()
Strip(s) ==
    LET keep == {i \in 1..Len(s) : ~IsSpace(s[i])}
    IN IF keep = {} THEN <<>>
       ELSE SubSeq(s, CHOOSE i \in keep : \A j \in keep : i <= j,
                      CHOOSE i \in keep : \A j \in keep : i >= j)

\* str.split(): the whitespace-separated tokens of s
RECURSIVE Tokens(_)
Tokens(s) ==
    LET t == Strip(s)
        sp == {i \in 1..Len(t) : IsSpace(t[i])}
    IN IF t = <<>> THEN <<>>
       ELSE IF sp = {} THEN <<t>>
       ELSE LET i == CHOOSE k \in sp : \A j \in sp : k <= j
            IN <<SubSeq(t, 1, i - 1)>> \o Tokens(SubSeq(t, i + 1, Len(t)))

\* repr() of a str without quotes or backslashes
Repr(s) == <<"'">> \o s \o <<"'">>

\* s < t for str: lexicographic by code point
RECURSIVE StrLess(_, _)
StrLess(s, t) ==
    IF t = <<>> THEN FALSE
    ELSE IF s = <<>> THEN TRUE
    ELSE IF Ord(Head(s)) # Ord(Head(t)) THEN Ord(Head(s)) < Ord(Head(t))
    ELSE StrLess(Tail(s), Tail(t))

\* ------------------------------------------------------------------ dicts
EmptyDict == <<>>

DictKeys(d) == {d[i][1] : i \in 1..Len(d)}

DictHas(d, k) == \E i \in 1..Len(d) : d[i][1] = k

\* d[k] for a key that is present
DictGet(d, k) == d[CHOOSE i \in 1..Len(d) : d[i][1] = k][2]

\* d[k] = v : an existing key keeps its position, a new key goes last
DictSet(d, k, v) ==
    IF DictHas(d, k)
    THEN [i \in 1..Len(d) |-> IF d[i][1] = k THEN <<k, v>> ELSE d[i]]
    ELSE Append(d, <<k, v>>)

RECURSIVE DictUpdateKeep(_, _)
DictUpdateKeep(d, other) ==
    IF other = <<>> THEN d
    ELSE DictUpdateKeep(IF DictHas(d, Head(other)[1]) THEN d
                        ELSE DictSet(d, Head(other)[1], Head(other)[2]), Tail(other))

\* d.update(other)
RECURSIVE DictUpdate(_, _)
DictUpdate(d, other) ==
    IF other = <<>> THEN d
    ELSE DictUpdate(DictSet(d, Head(other)[1], Head(other)[2]), Tail(other))

\* defaultdict(dict): d[k] for any key; a missing key reads as {}
DefaultGet(d, k) == IF DictHas(d, k) THEN DictGet(d, k) ELSE EmptyDict

\* defaultdict(dict): d[k][k2] = v
DefaultSet(d, k, k2, v) == DictSet(d, k, DictSet(DefaultGet(d, k), k2, v))

\* sorted(d.items()): keys are unique, so the pairs are ordered by key alone
RECURSIVE SortedItems(_)
SortedItems(d) ==
    IF d = <<>> THEN <<>>
    ELSE LET m == CHOOSE i \in 1..Len(d) : \A j \in 1..Len(d) : ~StrLess(d[j][1], d[i][1])
         IN <<d[m]>> \o SortedItems([i \in 1..(Len(d) - 1) |-> IF i < m THEN d[i] ELSE d[i + 1]])


\* --------------------------------------------------------------- literals
sSentinel == <<"#"," ","a","u","t","o","g","e","n","e","r","a","t","e","d">>
sSectionClass == <<"S","e","c","t","i","o","n",":"," ","C","l","a","s","s"," ">>
sSep == <<" ","-"," ">>
sERRCODE == <<"E","R","R","C","O","D","E","_">>
sCLASS == <<"C","L","A","S","S","_">>
sErrorClasses == <<"#"," ","E","r","r","o","r"," ","c","l","a","s","s","e","s">>
sAssign == <<" ","="," ">>
sComment == <<"#"," ">>
sLegacyClass == <<"2","2">>
sLegacyCode == <<"2","2","0","2","0">>
sLegacyLabel == <<"I","N","V","A","L","I","D","_","L","I","M","I","T","_","V","A","L","U","E">>

\* a local that has not been assigned / a regex group that did not take part
Unbound == <<>>
None == <<>>

\* --------------------------------------------------------- read_base_file
\* The lines up to and including the first one that starts with the marker;
\* ok is FALSE when the loop runs off the end (the ValueError).
RECURSIVE ScanBaseAlways(_, _)
ScanBaseAlways(lines, rv) ==
    IF lines = <<>> THEN [ok |-> TRUE, rv |-> rv]
    ELSE IF StartsWith(Head(lines), sSentinel)
         THEN [ok |-> TRUE, rv |-> Append(rv, Head(lines))]
         ELSE ScanBaseAlways(Tail(lines), Append(rv, Head(lines)))

RECURSIVE ScanBase(_, _)
ScanBase(lines, rv) ==
    IF lines = <<>> THEN [ok |-> FALSE, rv |-> rv]
    ELSE IF StartsWith(Head(lines), sSentinel)
         THEN [ok |-> TRUE, rv |-> Append(rv, Head(lines))]
         ELSE ScanBase(Tail(lines), Append(rv, Head(lines)))

ReadBaseFileLenient(lines) == ScanBaseAlways(lines, <<>>)

ReadBaseFile(lines) == ScanBase(lines, <<>>)

\* ------------------------------------------------------- parse_errors_txt
\* re.match(r"Section: (Class (..) - .+)", line)
MatchSection(line) ==
    /\ StartsWith(line, sSectionClass)
    /\ Len(line) >= Len(sSectionClass) + 2 + Len(sSep) + 1
    /\ SubSeq(line, Len(sSectionClass) + 3, Len(sSectionClass) + 2 + Len(sSep)) = sSep

SectionLabel(line) == SubSeq(line, 10, Len(line))

SectionClass(line) == SubSeq(line, Len(sSectionClass) + 1, Len(sSectionClass) + 2)

\* re.match(r"(.....)\s+(?:E|W|S)\s+ERRCODE_(\S+)(?:\s+(\S+))?$", line)
MatchError(line) ==
    /\ Len(line) >= 6
    /\ IsSpace(line[6])
    /\ LET toks == Tokens(SubSeq(line, 6, Len(line)))
       IN /\ Len(toks) \in {2, 3}
          /\ toks[1] \in {<<"E">>, <<"W">>, <<"S">>}
          /\ StartsWith(toks[2], sERRCODE)
          /\ Len(toks[2]) > Len(sERRCODE)

ErrorCode(line) == SubSeq(line, 1, 5)

ErrorSpec(line) ==
    LET toks == Tokens(SubSeq(line, 6, Len(line)))
    IN IF Len(toks) = 3 THEN toks[3] ELSE None

\* The locals of parse_errors_txt before the loop.
NewParse == [classes |-> EmptyDict, errors |-> EmptyDict, class_ |-> Unbound, raised |-> FALSE]

\* One iteration of "for line in page": st is the locals, raw the line read.
ParseLineSpecFirst(st, raw) ==
    LET line == Strip(Split(raw, <<"#">>)[1])
    IN IF line = <<>> THEN st
       ELSE IF MatchSection(line)
       THEN [st EXCEPT !.classes = DictSet(st.classes, SectionClass(line), SectionLabel(line)),
                       !.class_ = SectionClass(line)]
       ELSE IF MatchError(line)
       THEN IF st.class_ = Unbound THEN [st EXCEPT !.raised = TRUE]
            ELSE IF ErrorSpec(line) = None
            THEN [st EXCEPT !.errors = DictSet(st.errors, st.class_,
                                               DefaultGet(st.errors, st.class_))]
            ELSE [st EXCEPT !.errors = DefaultSet(st.errors, st.class_, ErrorCode(line),
                                                  Upper(ErrorSpec(line)))]
       ELSE [st EXCEPT !.raised = TRUE]

ParseLineStickyClass(st, raw) ==
    LET line == Strip(Split(raw, <<"#">>)[1])
    IN IF line = <<>> THEN st
       ELSE IF MatchSection(line)
       THEN [st EXCEPT !.classes = DictSet(st.classes, SectionClass(line), SectionLabel(line)),
                       !.class_ = IF st.class_ = Unbound THEN SectionClass(line) ELSE st.class_]
       ELSE IF MatchError(line)
       THEN IF ErrorSpec(line) = None THEN st
            ELSE IF st.class_ = Unbound THEN [st EXCEPT !.raised = TRUE]
            ELSE [st EXCEPT !.errors = DefaultSet(st.errors, st.class_, ErrorCode(line),
                                                  Upper(ErrorSpec(line)))]
       ELSE [st EXCEPT !.raised = TRUE]

ParseLineSkipUnknown(st, raw) ==
    LET line == Strip(Split(raw, <<"#">>)[1])
    IN IF line = <<>> THEN st
       ELSE IF MatchSection(line)
       THEN [st EXCEPT !.classes = DictSet(st.classes, SectionClass(line), SectionLabel(line)),
                       !.class_ = SectionClass(line)]
       ELSE IF MatchError(line)
       THEN IF ErrorSpec(line) = None THEN st
            ELSE IF st.class_ = Unbound THEN [st EXCEPT !.raised = TRUE]
            ELSE [st EXCEPT !.errors = DefaultSet(st.errors, st.class_, ErrorCode(line),
                                                  Upper(ErrorSpec(line)))]
       ELSE st

ParseLine(st, raw) ==
    LET line == Strip(Split(raw, <<"#">>)[1])
    IN IF line = <<>> THEN st
       ELSE IF MatchSection(line)
       THEN [st EXCEPT !.classes = DictSet(st.classes, SectionClass(line), SectionLabel(line)),
                       !.class_ = SectionClass(line)]
       ELSE IF MatchError(line)
       THEN IF ErrorSpec(line) = None THEN st
            ELSE IF st.class_ = Unbound THEN [st EXCEPT !.raised = TRUE]
            ELSE [st EXCEPT !.errors = DefaultSet(st.errors, st.class_, ErrorCode(line),
                                                  Upper(ErrorSpec(line)))]
       ELSE [st EXCEPT !.raised = TRUE]

\* ------------------------------------------------------------ fetch_errors
\* for c, cerrs in e1.items(): errors[c].update(cerrs)
RECURSIVE UpdateErrors(_, _)
UpdateErrors(errs, e1items) ==
    IF e1items = <<>> THEN errs
    ELSE LET c == Head(e1items)[1]
             cerrs == Head(e1items)[2]
         IN UpdateErrors(DictSet(errs, c, DictUpdate(DefaultGet(errs, c), cerrs)),
                         Tail(e1items))

\* The body of "for version in versions" once parse_errors_txt has returned.
FoldVersionInjectLast(cls, errs, c1v, e1v) ==
    [classes |-> DictUpdate(cls, c1v),
     errors |-> DefaultSet(UpdateErrors(errs, e1v), sLegacyClass, sLegacyCode, sLegacyLabel)]

FoldVersion(cls, errs, c1v, e1v) ==
    [classes |-> DictUpdate(cls, c1v),
     errors |-> UpdateErrors(DefaultSet(errs, sLegacyClass, sLegacyCode, sLegacyLabel), e1v)]

\* ---------------------------------------------------- generate_module_data
\* The identifier part of a class constant, from the class label.
ClassIdentLast(clslabel) ==
    LET parts == Split(clslabel, sSep)
    IN Upper(Replace(Replace(Strip(Split(parts[Len(parts)], <<"(">>)[1]), " ", "_"), "/", "_"))

ClassIdent(clslabel) ==
    Upper(Replace(Replace(Strip(Split(Split(clslabel, sSep)[2], <<"(">>)[1]), " ", "_"), "/", "_"))

ClassDecl(clscode, clslabel) == sCLASS \o ClassIdent(clslabel) \o sAssign \o Repr(clscode)

ErrorDecl(errcode, errlabel) == errlabel \o sAssign \o Repr(errcode)

RECURSIVE ClassDecls(_)
ClassDecls(items) ==
    IF items = <<>> THEN <<>>
    ELSE <<ClassDecl(Head(items)[1], Head(items)[2])>> \o ClassDecls(Tail(items))

RECURSIVE ErrorDecls(_)
ErrorDecls(items) ==
    IF items = <<>> THEN <<>>
    ELSE <<ErrorDecl(Head(items)[1], Head(items)[2])>> \o ErrorDecls(Tail(items))

RECURSIVE ClassSections(_, _)
ClassSections(items, errs) ==
    IF items = <<>> THEN <<>>
    ELSE <<<<>>, sComment \o Head(items)[2]>>
         \o ErrorDecls(SortedItems(DefaultGet(errs, Head(items)[1])))
         \o ClassSections(Tail(items), errs)

GenerateUnsorted(cls, errs) ==
    <<<<>>, sErrorClasses>> \o ClassDecls(cls) \o ClassSections(cls, errs)

GenerateModuleData(cls, errs) ==
    <<<<>>, sErrorClasses>>
    \o ClassDecls(SortedItems(cls))
    \o ClassSections(SortedItems(cls), errs)

\* errors[clscode] in the generator creates the missing keys of the defaultdict
RECURSIVE TouchErrors(_, _)
TouchErrors(errs, items) ==
    IF items = <<>> THEN errs
    ELSE TouchErrors(DictSet(errs, Head(items)[1], DefaultGet(errs, Head(items)[1])),
                     Tail(items))


\* ----------------------------------------------------------------- inputs
\* The lines a fetched errcodes.txt page may hold.
L_comment == <<" ","#"," ","c">>
L_h22 == <<"S","e","c","t","i","o","n",":"," ","C","l","a","s","s"," ","2","2"," ","-"," ","D","a">>
L_h23 == <<"S","e","c","t","i","o","n",":"," ","C","l","a","s","s"," ","2","3"," ","-"," ","I","b"," ","#"," ","c">>
L_e01a == <<"2","2","0","0","1"," ","E"," ","E","R","R","C","O","D","E","_","X"," ","a","b">>
L_e01c == <<"2","2","0","0","1"," "," ","W"," ","E","R","R","C","O","D","E","_","X"," ","c","d"," ">>
L_e01n == <<"2","2","0","0","1"," ","E"," ","E","R","R","C","O","D","E","_","X">>
L_e20z == <<"2","2","0","2","0"," ","S"," ","E","R","R","C","O","D","E","_","Y"," ","z","z">>
L_bad == <<"o","o","p","s">>

PageLines == {L_comment, L_h22, L_h23, L_e01a, L_e01c, L_e01n, L_e20z, L_bad}

\* The lines the target file may hold.
F_marker == <<"#"," ","a","u","t","o","g","e","n","e","r","a","t","e","d","!">>
F_other == <<"x">>

\* The target files a run may start from: empty, without the marker, and
\* with a marker line between other lines.
Files == {<<>>, <<F_other>>, <<F_other, F_marker, F_other>>}

ClassCodes == {<<"2","2">>, <<"2","3">>}
ErrCodes == {<<"2","2","0","0","1">>, <<"2","2","0","2","0">>}
Keys == ClassCodes \X ErrCodes

\* What each page line says, read by hand from the errcodes.txt grammar:
\* the class of a section header, the code and the label of an error entry.
Meaning(raw) ==
    CASE raw = L_comment -> [kind |-> "skip", cls |-> None, code |-> None, label |-> None]
      [] raw = L_h22 -> [kind |-> "header", cls |-> <<"2","2">>, code |-> None, label |-> None]
      [] raw = L_h23 -> [kind |-> "header", cls |-> <<"2","3">>, code |-> None, label |-> None]
      [] raw = L_e01a -> [kind |-> "entry", cls |-> None, code |-> <<"2","2","0","0","1">>, label |-> <<"A","B">>]
      [] raw = L_e01c -> [kind |-> "entry", cls |-> None, code |-> <<"2","2","0","0","1">>, label |-> <<"C","D">>]
      [] raw = L_e01n -> [kind |-> "entry", cls |-> None, code |-> <<"2","2","0","0","1">>, label |-> None]
      [] raw = L_e20z -> [kind |-> "entry", cls |-> None, code |-> <<"2","2","0","2","0">>, label |-> <<"Z","Z">>]
      [] raw = L_bad -> [kind |-> "malformed", cls |-> None, code |-> None, label |-> None]

NoDefs == [k \in Keys |-> None]

\* label of code e under class c in a defaultdict of dicts, None when absent
Lookup(errs, c, e) ==
    IF DictHas(errs, c) /\ DictHas(DictGet(errs, c), e) THEN DictGet(DictGet(errs, c), e)
    ELSE None


\* ------------------------------------------------------------------ state
VARIABLES
    pc,          \* where main() is
    argc,        \* len(sys.argv)
    artifact,    \* the lines of the target file on disk
    file_start,  \* main: the lines read_base_file returned
    vi,          \* fetch_errors: index of the version being processed
    nlines,      \* parse_errors_txt: lines read from the page so far
    p,           \* parse_errors_txt: its locals classes, errors, class_
    classes,     \* fetch_errors: the class registry
    errors,      \* fetch_errors: the error registry
    out,         \* the lines generate_module_data yielded
    raisedIn,    \* the function an uncaught exception came from
    fetches,     \* urlopen calls made
    merged,      \* versions folded into the registries
    lastLine,    \* the page line read last
    artifact0,   \* history: the target file before the run
    classes0,    \* history: the class registry when the current page was fetched
    errors0,     \* history: the error registry when the current page was fetched
    gClass,      \* history: class of the last section header of the current page
    gCur,        \* history: labels the current page gave, by <<class, code>>
    gLast,       \* history: labels of the last folded version that gave one
    gLegacy,     \* history: label the last folded version gave the legacy code
    gOverrode,   \* history: a folded version relabelled a code of an earlier one
    gBad,        \* history: the failures that happened
    label,       \* a class label handed to the class-constant naming
    ident        \* the class-constant declaration made from label

vars == <<pc, argc, artifact, file_start, vi, nlines, p, classes, errors, out, raisedIn,
          fetches, merged, lastLine, artifact0, classes0, errors0, gClass, gCur, gLast,
          gLegacy, gOverrode, gBad, label, ident>>

runVars == <<argc, artifact0>>
histVars == <<classes0, errors0, gClass, gCur, gLast, gLegacy, gOverrode>>
labelVars == <<label, ident>>

Init ==
    /\ pc = "start"
    /\ argc \in {1, 2, 3}
    /\ artifact \in Files
    /\ artifact0 = artifact
    /\ file_start = <<>>
    /\ vi = 1
    /\ nlines = 0
    /\ p = NewParse
    /\ classes = EmptyDict
    /\ errors = EmptyDict
    /\ out = <<>>
    /\ raisedIn = "none"
    /\ fetches = 0
    /\ merged = 0
    /\ lastLine = None
    /\ classes0 = EmptyDict
    /\ errors0 = EmptyDict
    /\ gClass = None
    /\ gCur = NoDefs
    /\ gLast = NoDefs
    /\ gLegacy = None
    /\ gOverrode = FALSE
    /\ gBad = {}
    /\ label = <<>>
    /\ ident = <<>>

\* main: the argument count check
CheckUsage ==
    /\ pc = "start"
    /\ IF argc # 2
       THEN /\ pc' = "exit2"
            /\ gBad' = gBad \cup {"usage"}
       ELSE /\ pc' = "read_base"
            /\ gBad' = gBad
    /\ UNCHANGED <<artifact, file_start, vi, nlines, p, classes, errors, out, raisedIn,
                   fetches, merged, lastLine>>
    /\ UNCHANGED <<runVars, histVars, labelVars>>

\* main: file_start = read_base_file(filename)
ReadBase ==
    /\ pc = "read_base"
    /\ LET r == ReadBaseFile(artifact)
       IN IF r.ok
          THEN /\ file_start' = r.rv
               /\ pc' = "fetch"
               /\ raisedIn' = raisedIn
          ELSE /\ file_start' = file_start
               /\ pc' = "raised"
               /\ raisedIn' = "read_base_file"
    /\ gBad' = IF \E i \in 1..Len(artifact) : StartsWith(artifact[i], sSentinel)
               THEN gBad ELSE gBad \cup {"sentinel"}
    /\ UNCHANGED <<artifact, vi, nlines, p, classes, errors, out, fetches, merged, lastLine>>
    /\ UNCHANGED <<runVars, histVars, labelVars>>

\* fetch_errors: the next version; parse_errors_txt: urlopen(url) answers
FetchOk ==
    /\ pc = "fetch"
    /\ fetches' = fetches + 1
    /\ p' = NewParse
    /\ nlines' = 0
    /\ lastLine' = None
    /\ pc' = "parse"
    /\ classes0' = classes
    /\ errors0' = errors
    /\ gClass' = None
    /\ gCur' = NoDefs
    /\ UNCHANGED <<artifact, file_start, vi, classes, errors, out, raisedIn, merged, gLast,
                   gLegacy, gOverrode, gBad>>
    /\ UNCHANGED <<runVars, labelVars>>

\* parse_errors_txt: urlopen(url) raises
FetchFail ==
    /\ pc = "fetch"
    /\ fetches' = fetches + 1
    /\ pc' = "raised"
    /\ raisedIn' = "urlopen"
    /\ gBad' = gBad \cup {"fetch"}
    /\ UNCHANGED <<artifact, file_start, vi, nlines, p, classes, errors, out, merged,
                   lastLine>>
    /\ UNCHANGED <<runVars, histVars, labelVars>>

\* parse_errors_txt: one iteration of the loop over the page
ParseStep ==
    /\ pc = "parse"
    /\ nlines < MaxLines
    /\ \E raw \in PageLines :
          LET st == ParseLine(p, raw)
              m == Meaning(raw)
              orphan == m.kind = "entry" /\ m.label # None /\ gClass = None
          IN /\ p' = st
             /\ lastLine' = raw
             /\ pc' = IF st.raised THEN "raised" ELSE "parse"
             /\ raisedIn' = IF st.raised THEN "parse_errors_txt" ELSE raisedIn
             /\ gClass' = IF m.kind = "header" THEN m.cls ELSE gClass
             /\ gCur' = IF m.kind = "entry" /\ m.label # None /\ gClass # None
                        THEN [gCur EXCEPT ![<<gClass, m.code>>] = m.label]
                        ELSE gCur
             /\ gBad' = IF m.kind = "malformed" \/ orphan THEN gBad \cup {"line"} ELSE gBad
    /\ nlines' = nlines + 1
    /\ UNCHANGED <<artifact, file_start, vi, classes, errors, out, fetches, merged,
                   classes0, errors0, gLast, gLegacy, gOverrode>>
    /\ UNCHANGED <<runVars, labelVars>>

\* parse_errors_txt returns at the end of the page; fetch_errors folds the
\* version into the registries and goes on to the next version or returns
EndOfPage ==
    /\ pc = "parse"
    /\ LET r == FoldVersion(classes, errors, p.classes, p.errors)
       IN /\ classes' = r.classes
          /\ errors' = r.errors
    /\ merged' = merged + 1
    /\ gLast' = [k \in Keys |-> IF gCur[k] # None THEN gCur[k] ELSE gLast[k]]
    /\ gLegacy' = gCur[<<sLegacyClass, sLegacyCode>>]
    /\ gOverrode' = (gOverrode \/ \E k \in Keys : /\ gCur[k] # None
                                                 /\ gLast[k] # None
                                                 /\ gCur[k] # gLast[k])
    /\ vi' = vi + 1
    /\ pc' = IF vi = NumVersions THEN "open" ELSE "fetch"
    /\ p' = NewParse
    /\ nlines' = 0
    /\ lastLine' = None
    /\ gClass' = None
    /\ gCur' = NoDefs
    /\ UNCHANGED <<artifact, file_start, out, raisedIn, fetches, classes0, errors0, gBad>>
    /\ UNCHANGED <<runVars, labelVars>>

\* main: f = open(filename, "w")
OpenForWrite ==
    /\ pc = "open"
    /\ artifact' = <<>>
    /\ pc' = "write"
    /\ UNCHANGED <<file_start, vi, nlines, p, classes, errors, out, raisedIn, fetches,
                   merged, lastLine, gBad>>
    /\ UNCHANGED <<runVars, histVars, labelVars>>

\* main: the two print loops
WriteFile ==
    /\ pc = "write"
    /\ out' = GenerateModuleData(classes, errors)
    /\ artifact' = artifact \o file_start \o out'
    /\ errors' = TouchErrors(errors, SortedItems(classes))
    /\ pc' = "done"
    /\ UNCHANGED <<file_start, vi, nlines, p, classes, raisedIn, fetches, merged, lastLine,
                   gBad>>
    /\ UNCHANGED <<runVars, histVars, labelVars>>

Next ==
    \/ CheckUsage
    \/ ReadBase
    \/ FetchOk
    \/ FetchFail
    \/ ParseStep
    \/ EndOfPage
    \/ OpenForWrite
    \/ WriteFile

Spec == Init /\ [][Next]_vars


\* ------------------------------------------------- class-constant naming
\* Class labels as the section pattern captures them: "Class 22 - " and a
\* description put together from up to MaxDesc pieces.
DescPieces == {<<"a">>, <<"B">>, <<" ">>, sSep, <<"(">>, <<"/">>}

RECURSIVE Descs(_)
Descs(n) ==
    IF n = 0 THEN {<<>>}
    ELSE LET shorter == Descs(n - 1)
         IN shorter \cup {q \o x : q \in shorter, x \in DescPieces}

sClass22 == <<"C","l","a","s","s"," ","2","2"," ","-"," ">>
sSection == <<"S","e","c","t","i","o","n",":"," ">>

\* The labels of the lines parse_errors_txt takes for section headers.
Labels ==
    {sClass22 \o d : d \in {d \in Descs(MaxDesc) :
        /\ MatchSection(sSection \o sClass22 \o d)
        /\ Strip(sSection \o sClass22 \o d) = sSection \o sClass22 \o d
        /\ SectionLabel(sSection \o sClass22 \o d) = sClass22 \o d}}

InitLabel ==
    /\ pc = "label"
    /\ label \in Labels
    /\ ident = <<>>
    /\ argc = 2
    /\ artifact = <<>>
    /\ artifact0 = <<>>
    /\ file_start = <<>>
    /\ vi = 1
    /\ nlines = 0
    /\ p = NewParse
    /\ classes = EmptyDict
    /\ errors = EmptyDict
    /\ out = <<>>
    /\ raisedIn = "none"
    /\ fetches = 0
    /\ merged = 0
    /\ lastLine = None
    /\ classes0 = EmptyDict
    /\ errors0 = EmptyDict
    /\ gClass = None
    /\ gCur = NoDefs
    /\ gLast = NoDefs
    /\ gLegacy = None
    /\ gOverrode = FALSE
    /\ gBad = {}

\* generate_module_data: the class constant of a registry holding label alone
NameClass ==
    /\ pc = "label"
    /\ ident' = ClassDecls(SortedItems(<<<<SectionClass(sSection \o label), label>>>>))[1]
    /\ pc' = "named"
    /\ UNCHANGED <<label, artifact, file_start, vi, nlines, p, classes, errors, out,
                   raisedIn, fetches, merged, lastLine, gBad>>
    /\ UNCHANGED <<runVars, histVars>>

NextLabel == NameClass

SpecLabel == InitLabel /\ [][NextLabel]_vars


\* ------------------------------------------------------------ properties
c22 == sLegacyClass
c23 == <<"2","3">>
e01 == <<"2","2","0","0","1">>

HasSentinel(lines) == \E i \in 1..Len(lines) : StartsWith(lines[i], sSentinel)

\* the lines of a file up to and including the first marker line
BasePrefix(lines) ==
    SubSeq(lines, 1, CHOOSE i \in 1..Len(lines) :
                        /\ StartsWith(lines[i], sSentinel)
                        /\ \A j \in 1..(i - 1) : ~StartsWith(lines[j], sSentinel))

\* the strings of a set in ascending order
RECURSIVE Ascending(_)
Ascending(S) ==
    IF S = {} THEN <<>>
    ELSE LET m == CHOOSE x \in S : \A y \in S : ~StrLess(y, x)
         IN <<m>> \o Ascending(S \ {m})

RECURSIVE Flatten(_)
Flatten(ss) == IF ss = <<>> THEN <<>> ELSE Head(ss) \o Flatten(Tail(ss))

\* The block the registries call for: the header, the class constants by
\* ascending class code, then a section per class by ascending class code
\* with its error constants by ascending error code.
ExpectedBlock(cls, errs) ==
    LET cs == Ascending(DictKeys(cls))
        section(c) ==
            LET es == Ascending(DictKeys(DefaultGet(errs, c)))
            IN <<<<>>, sComment \o DictGet(cls, c)>>
               \o [i \in 1..Len(es) |-> DictGet(DictGet(errs, c), es[i]) \o sAssign \o Repr(es[i])]
    IN <<<<>>, sErrorClasses>>
       \o [i \in 1..Len(cs) |-> ClassDecl(cs[i], DictGet(cls, cs[i]))]
       \o Flatten([i \in 1..Len(cs) |-> section(cs[i])])

C2_AllOrNothing ==
    /\ pc \notin {"write", "done"} => artifact = artifact0
    /\ gBad # {} => pc \in {"exit2", "raised"}
    /\ pc \in {"open", "write", "done"} =>
          /\ argc = 2
          /\ HasSentinel(artifact0)
          /\ fetches = NumVersions
          /\ merged = NumVersions
    /\ pc = "done" =>
          /\ artifact = BasePrefix(artifact0) \o out
          /\ Len(out) >= 2

\* a line of a later version's page failed after an earlier version was folded
C2_Witness ==
    /\ pc = "raised"
    /\ raisedIn = "parse_errors_txt"
    /\ merged >= 1
    /\ lastLine = L_bad
    /\ artifact = artifact0
    /\ artifact0 # <<>>

\* C3: for every class c and code e other than 22020 that a folded version
\* labelled under c, the registry holds the label of the last folded version
\* that labelled e under c.
C3_LastDefinitionWins ==
    \A k \in Keys :
        (k[2] # sLegacyCode /\ gLast[k] # None)
            => Lookup(errors, k[1], k[2]) = gLast[k]

\* a later version relabelled a code and the run finished
C3_Witness ==
    /\ pc = "done"
    /\ gOverrode
    /\ gLast[<<c22, e01>>] # None
    /\ Lookup(errors, c22, e01) = gLast[<<c22, e01>>]

\* C4: a target file without a marker line fails in read_base_file, no page
\* is ever fetched and the file is unchanged.
C4_NoSentinelNoFetch ==
    ~HasSentinel(artifact0) =>
        /\ fetches = 0
        /\ artifact = artifact0
        /\ pc \in {"start", "exit2", "read_base", "raised"}
        /\ pc = "raised" => raisedIn = "read_base_file"
        /\ pc = "exit2" => argc # 2

\* the run stopped in read_base_file on a file that has lines but no marker
C4_Witness ==
    /\ pc = "raised"
    /\ raisedIn = "read_base_file"
    /\ artifact0 # <<>>
    /\ ~HasSentinel(artifact0)
    /\ fetches = 0

\* C5 as claimed: at every point of the merge no error code is present under
\* two class codes of the error registry.
C5_OneClassPerCode ==
    \A e \in ErrCodes :
        Cardinality({c \in ClassCodes : Lookup(errors, c, e) # None}) <= 1

\* C6: the generated block is the header, the class constants in ascending
\* class code order, then per class in ascending class code order an empty
\* line, the label comment and the error constants in ascending error code
\* order, whatever order the entries were inserted in.
C6_GeneratedOrder ==
    pc = "done" => out = ExpectedBlock(classes, errors)

\* both registries were filled in descending order
C6_Witness ==
    /\ pc = "done"
    /\ Len(classes) = 2
    /\ classes[1][1] = c23
    /\ Len(DefaultGet(errors, c22)) = 2
    /\ DefaultGet(errors, c22)[1][1] = sLegacyCode

\* the identifier the claim of C7 describes: everything after the first
\* " - ", cut at the first "(", stripped, " " and "/" to "_", upper case
ClassIdentRest(clslabel) ==
    LET i == Find(clslabel, sSep)
        rest == SubSeq(clslabel, i + Len(sSep), Len(clslabel))
        k == Find(rest, <<"(">>)
        cut == IF k = 0 THEN rest ELSE SubSeq(rest, 1, k - 1)
    IN Upper(Replace(Replace(Strip(cut), " ", "_"), "/", "_"))

\* the same with the text ending at the next " - " when there is one
ClassIdentBetween(clslabel) ==
    LET i == Find(clslabel, sSep)
        rest == SubSeq(clslabel, i + Len(sSep), Len(clslabel))
        j == Find(rest, sSep)
        seg == IF j = 0 THEN rest ELSE SubSeq(rest, 1, j - 1)
        k == Find(seg, <<"(">>)
        cut == IF k = 0 THEN seg ELSE SubSeq(seg, 1, k - 1)
    IN Upper(Replace(Replace(Strip(cut), " ", "_"), "/", "_"))

\* C7 as claimed: the class constant is CLASS_ and all the text after the
\* first " - " of the label, normalised, also when that text holds " - ".
C7_TextAfterFirstSep ==
    pc = "named" => ident = sCLASS \o ClassIdentRest(label) \o sAssign \o Repr(c22)

\* C7 amended: the class constant is CLASS_ and the text between the first
\* " - " of the label and the next " - " (the end of the label when there is
\* none), cut at the first "(", stripped, " " and "/" to "_", upper case.
C7_TextBetweenSeps ==
    pc = "named" => ident = sCLASS \o ClassIdentBetween(label) \o sAssign \o Repr(c22)

\* a label whose description holds a further " - " was named
C7_Witness ==
    /\ pc = "named"
    /\ Len(Split(label, sSep)) >= 3
    /\ ClassIdentBetween(label) # <<>>
    /\ ClassIdentBetween(label) # ClassIdentRest(label)

\* C8: an error line with a symbolic spec that parses adds exactly the pair
\* (code, upper-cased spec) under the active class and nothing else; an error
\* line without a spec changes neither the page's results nor the registries
\* and raises nothing, with or without a class header before it.
C8_EntryLines ==
    [][(pc = "parse" /\ nlines' = nlines + 1 /\ Meaning(lastLine').kind = "entry") =>
          LET m == Meaning(lastLine')
          IN /\ classes' = classes /\ errors' = errors
             /\ m.label = None => (p' = p /\ pc' = "parse")
             /\ (m.label # None /\ pc' = "parse") =>
                   /\ p'.classes = p.classes
                   /\ p'.class_ = p.class_
                   /\ p.class_ \in ClassCodes
                   /\ DictKeys(p'.errors) \subseteq ClassCodes
                   /\ \A c \in DictKeys(p'.errors) :
                         DictKeys(DictGet(p'.errors, c)) \subseteq ErrCodes
                   /\ \A k \in Keys :
                         Lookup(p'.errors, k[1], k[2])
                            = IF k = <<p.class_, m.code>> THEN m.label
                              ELSE Lookup(p.errors, k[1], k[2])]_vars

\* a line without a spec was read after the page had labelled the same code
C8_Witness ==
    /\ pc = "parse"
    /\ lastLine = L_e01n
    /\ Lookup(p.errors, c22, e01) # None
    /\ merged >= 1

\* C9: the entries of a page are filed under the class of the last section
\* header read before them in that page; an entry with a spec read before
\* any header of its page raises in parse_errors_txt, files nothing and
\* leaves the registries as they were when the page was fetched.
C9_ActiveClassPerDocument ==
    /\ \A k \in Keys : Lookup(p.errors, k[1], k[2]) = gCur[k]
    /\ DictKeys(p.errors) \subseteq ClassCodes
    /\ (lastLine # None /\ Meaning(lastLine).kind = "entry"
            /\ Meaning(lastLine).label # None /\ gClass = None) =>
          /\ pc = "raised"
          /\ raisedIn = "parse_errors_txt"
          /\ p.errors = EmptyDict
          /\ classes = classes0
          /\ errors = errors0
          /\ merged = vi - 1

\* an entry with a spec opened the page of a later version, after an earlier
\* version had filed the same code under class 22
C9_Witness ==
    /\ pc = "raised"
    /\ merged >= 1
    /\ lastLine = L_e01a
    /\ gClass = None
    /\ Lookup(errors, c22, e01) # None

\* C10 as claimed: every entry of the error registry is declared in the
\* section of its class, and every class code with entries in the error
\* registry has a label in the class registry.
C10_EveryEntryDeclared ==
    pc = "done" =>
        \A c \in DictKeys(errors) :
            DictGet(errors, c) # EmptyDict =>
                /\ DictHas(classes, c)
                /\ \A e \in DictKeys(DictGet(errors, c)) :
                      \E i \in 1..Len(out) :
                          out[i] = ErrorDecl(e, DictGet(DictGet(errors, c), e))

====
